---- MODULE Spec2Model ----
(***************************************************************************)
(* Model of scripts/jira_weekly_report.py: one run of main(), from the     *)
(* parsed command line to the process outcome.                             *)
(*                                                                         *)
(* Text is a sequence of fragments (TLA+ strings): a literal of the source *)
(* is one fragment, data (project key, dates, issue keys, filter) is one   *)
(* fragment per character or word.  Python's + on str is \o.               *)
(* An optional value (None / unset) is a sequence of length 0 or 1.        *)
(* A dict is the sequence of its items in insertion order.                 *)
(***************************************************************************)
EXTENDS Integers, Sequences, FiniteSets, TLC

\* ------------------------------------------------------------------ bounds
MaxDays == 1

\* ------------------------------------------------------- program constants
RC_OK == 0
RC_CONFIG == 1
RC_SUMMARIZE == 2
RC_DELIVERY == 3

\* ---------------------------------------------------------------- options
None == << >>
Some(x) == << x >>
IsNone(o) == o = << >>
Val(o) == o[1]

\* ------------------------------------------------------------------ dicts
DictHas(d, k) == \E i \in 1..Len(d) : d[i].k = k
DictGet(d, k) == d[CHOOSE i \in 1..Len(d) : d[i].k = k].v
DictGetDefault(d, k, dflt) == IF DictHas(d, k) THEN DictGet(d, k) ELSE dflt
DictSet(d, k, v) ==
    IF DictHas(d, k)
    THEN [i \in 1..Len(d) |-> IF d[i].k = k THEN [k |-> k, v |-> v] ELSE d[i]]
    ELSE Append(d, [k |-> k, v |-> v])
DictKeys(d) == [i \in 1..Len(d) |-> d[i].k]

\* ------------------------------------------------------------------- text
Contains(s, sub) ==
    \E i \in 0..(Len(s) - Len(sub)) : SubSeq(s, i + 1, i + Len(sub)) = sub

Digit(n) == <<"0", "1", "2", "3", "4", "5", "6", "7", "8", "9">>[n + 1]

RECURSIVE ZeroPad(_, _)
ZeroPad(n, width) ==
    IF width = 0 THEN << >>
    ELSE ZeroPad(n \div 10, width - 1) \o << Digit(n % 10) >>

\* ------------------------------------------------------------- datetimes
\* A datetime is [ord, tod]: days since 2023-01-01 and the time of day.
IsLeap(y) == (y % 4 = 0) /\ ((y % 100 # 0) \/ (y % 400 = 0))
DaysInYear(y) == IF IsLeap(y) THEN 366 ELSE 365
DaysInMonth(y, m) ==
    IF m = 2 THEN (IF IsLeap(y) THEN 29 ELSE 28)
    ELSE IF m \in {4, 6, 9, 11} THEN 30 ELSE 31

RECURSIVE YearOf(_, _)
YearOf(y, n) ==
    IF n < DaysInYear(y) THEN [y |-> y, n |-> n]
    ELSE YearOf(y + 1, n - DaysInYear(y))

RECURSIVE MonthOf(_, _, _)
MonthOf(y, m, n) ==
    IF n < DaysInMonth(y, m) THEN [m |-> m, d |-> n + 1]
    ELSE MonthOf(y, m + 1, n - DaysInMonth(y, m))

Ymd(t) ==
    LET yr == YearOf(2023, t.ord)
        md == MonthOf(yr.y, 1, yr.n)
    IN  [y |-> yr.y, m |-> md.m, d |-> md.d]

\* strftime('%Y-%m-%d') and str(datetime.date()): the time of day is dropped
strftime(t) ==
    LET c == Ymd(t)
    IN  ZeroPad(c.y, 4) \o <<"-">> \o ZeroPad(c.m, 2) \o <<"-">> \o ZeroPad(c.d, 2)

\* end - timedelta(days=n)
MinusDays(t, n) == [ord |-> t.ord - n, tod |-> t.tod]

\* datetime comparison
DtLE(a, b) == (a.ord < b.ord) \/ (a.ord = b.ord /\ a.tod <= b.tod)

\* ----------------------------------------------------------------- labels
Labels == <<"created", "resolved", "open">>

\* --------------------------------------------------------------- build_jql
date_range(start, end) ==
    <<" >= '">> \o strftime(start) \o <<"' AND created <= '">> \o strftime(end) \o <<"'">>

created_clause(project_key, start, end) ==
    <<"project = ">> \o project_key \o <<" AND created">> \o date_range(start, end)

\* variant: the upper bound of the resolved clause is left out
resolved_clause_NoEnd(project_key, start, end) ==
    <<"project = ">> \o project_key \o <<" AND resolved >= '">> \o strftime(start) \o <<"'">>

resolved_clause(project_key, start, end) ==
    <<"project = ">> \o project_key \o <<" AND resolved >= '">> \o strftime(start)
        \o <<"' AND resolved <= '">> \o strftime(end) \o <<"'">>

open_clause(project_key, start, end) ==
    <<"project = ">> \o project_key
        \o <<" AND statusCategory != Done AND updated >= '">> \o strftime(start) \o <<"'">>

\* variant: the filter is not conjoined onto the open clause
build_jql_OpenUnfiltered(project_key, start, end, extra_filters) ==
    LET c == created_clause(project_key, start, end)
        r == resolved_clause(project_key, start, end)
        o == open_clause(project_key, start, end)
        f == <<" AND ">> \o extra_filters
    IN  IF extra_filters # << >>
        THEN << [k |-> "created", v |-> c \o f],
                [k |-> "resolved", v |-> r \o f],
                [k |-> "open", v |-> o] >>
        ELSE << [k |-> "created", v |-> c],
                [k |-> "resolved", v |-> r],
                [k |-> "open", v |-> o] >>

build_jql(project_key, start, end, extra_filters) ==
    LET c == created_clause(project_key, start, end)
        r == resolved_clause(project_key, start, end)
        o == open_clause(project_key, start, end)
        f == <<" AND ">> \o extra_filters
    IN  IF extra_filters # << >>
        THEN << [k |-> "created", v |-> c \o f],
                [k |-> "resolved", v |-> r \o f],
                [k |-> "open", v |-> o \o f] >>
        ELSE << [k |-> "created", v |-> c],
                [k |-> "resolved", v |-> r],
                [k |-> "open", v |-> o] >>

\* ------------------------------------------------------------- environment
JiraRequired == <<"JIRA_BASE_URL", "JIRA_PROJECT_KEY", "JIRA_AUTH_EMAIL", "JIRA_API_TOKEN">>
SmtpRequired == <<"SMTP_HOST", "SMTP_PORT", "SMTP_USERNAME", "SMTP_PASSWORD",
                  "SMTP_SENDER", "SMTP_RECIPIENT">>

\* os.getenv(name) is falsy: the variable is unset or empty
getenv_falsy(env, name) == IsNone(env[name]) \/ Val(env[name]) = << >>

\* os.environ.get(name, default)
environ_get(env, name, default) == IF IsNone(env[name]) THEN default ELSE Val(env[name])

Missing(env, names) == SelectSeq(names, LAMBDA n : getenv_falsy(env, n))

RECURSIVE rstrip(_, _)
rstrip(s, ch) ==
    IF s # << >> /\ s[Len(s)] = ch THEN rstrip(SubSeq(s, 1, Len(s) - 1), ch) ELSE s

LowerCh(c) ==
    CASE c = "T" -> "t" [] c = "R" -> "r" [] c = "U" -> "u" [] c = "E" -> "e"
      [] c = "F" -> "f" [] c = "A" -> "a" [] c = "L" -> "l" [] c = "S" -> "s"
      [] OTHER -> c
lower(s) == [i \in 1..Len(s) |-> LowerCh(s[i])]

IsDigit(c) == c \in {"0", "1", "2", "3", "4", "5", "6", "7", "8", "9"}
DigitVal(c) == CHOOSE n \in 0..9 : Digit(n) = c
\* int(text) succeeds on a non-empty run of decimal digits
IsIntText(s) == s # << >> /\ \A i \in 1..Len(s) : IsDigit(s[i])
RECURSIVE ToInt(_)
ToInt(s) ==
    IF s = << >> THEN 0
    ELSE 10 * ToInt(SubSeq(s, 1, Len(s) - 1)) + DigitVal(s[Len(s)])

\* JiraConfig.from_env: [ok, exc] or [ok, cfg]
JiraConfig_from_env(env) ==
    IF Missing(env, JiraRequired) # << >>
    THEN [ok |-> FALSE, exc |-> "EnvironmentError"]
    ELSE [ok |-> TRUE,
          cfg |-> [base_url |-> rstrip(Val(env["JIRA_BASE_URL"]), "/"),
                   project_key |-> Val(env["JIRA_PROJECT_KEY"]),
                   auth_email |-> Val(env["JIRA_AUTH_EMAIL"]),
                   api_token |-> Val(env["JIRA_API_TOKEN"]),
                   verify_ssl |->
                       (lower(environ_get(env, "JIRA_VERIFY_SSL", <<"t", "r", "u", "e">>))
                           = <<"t", "r", "u", "e">>)]]

SmtpConfig_from_env(env) ==
    IF Missing(env, SmtpRequired) # << >>
    THEN [ok |-> FALSE, exc |-> "EnvironmentError"]
    ELSE IF ~IsIntText(Val(env["SMTP_PORT"]))
    THEN [ok |-> FALSE, exc |-> "ValueError"]
    ELSE [ok |-> TRUE,
          cfg |-> [host |-> Val(env["SMTP_HOST"]),
                   port |-> ToInt(Val(env["SMTP_PORT"])),
                   username |-> Val(env["SMTP_USERNAME"]),
                   password |-> Val(env["SMTP_PASSWORD"]),
                   sender |-> Val(env["SMTP_SENDER"]),
                   recipient |-> Val(env["SMTP_RECIPIENT"]),
                   use_tls |->
                       (lower(environ_get(env, "SMTP_USE_TLS", <<"t", "r", "u", "e">>))
                           = <<"t", "r", "u", "e">>)]]

\* ------------------------------------------------------------ call_jira_api
\* A response of requests.get is
\*   [exc |-> TRUE]                          the call raised RequestException
\*   [exc |-> FALSE, status, json]           json = None: the body is not JSON
\*   json = Some([total, issues])            total: optional integer,
\*                                           issues: optional list of objects,
\*                                           an object is its optional "key"
call_jira_api(resp) ==
    IF resp.exc THEN [ok |-> FALSE, exc |-> "RequestException"]
    ELSE IF resp.status # 200 THEN [ok |-> FALSE, exc |-> "RuntimeError"]
    ELSE IF IsNone(resp.json) THEN [ok |-> FALSE, exc |-> "JSONDecodeError"]
    ELSE
      LET data == Val(resp.json)
          issues == IF IsNone(data.issues) THEN << >> ELSE Val(data.issues)
      IN  IF \E i \in 1..Len(issues) : IsNone(issues[i])
          THEN [ok |-> FALSE, exc |-> "KeyError"]
          ELSE
            LET issue_keys == [i \in 1..Len(issues) |-> Val(issues[i])]
            IN  [ok |-> TRUE,
                 total |-> IF IsNone(data.total) THEN Len(issue_keys) ELSE Val(data.total),
                 issue_keys |-> issue_keys]

\* --------------------------------------------------------- build_email_body
Title(label) ==
    CASE label = "created" -> "Created"
      [] label = "resolved" -> "Resolved"
      [] label = "open" -> "Open"
      [] OTHER -> label

\* str(int) as one fragment per count
IntText(n) == << ToString(n) >>

RECURSIVE JoinLines(_)
JoinLines(lines) ==
    IF lines = << >> THEN << >>
    ELSE IF Len(lines) = 1 THEN lines[1]
    ELSE lines[1] \o <<"\n">> \o JoinLines(Tail(lines))

\* variant: the items are emitted last key first
RECURSIVE ListItems_Reversed(_, _)
ListItems_Reversed(base_url, keys) ==
    IF keys = << >> THEN << >>
    ELSE ListItems_Reversed(base_url, Tail(keys))
            \o <<"<li><a href='">> \o base_url \o <<"/browse/">> \o keys[1] \o <<"'>">>
            \o keys[1] \o <<"</a></li>">>

RECURSIVE ListItems(_, _)
ListItems(base_url, keys) ==
    IF keys = << >> THEN << >>
    ELSE <<"<li><a href='">> \o base_url \o <<"/browse/">> \o keys[1] \o <<"'>">>
            \o keys[1] \o <<"</a></li>">> \o ListItems(base_url, Tail(keys))

SectionLines(label, keys, base_url) ==
    << <<"<p><strong>", Title(label), " issues</strong>:</p>">> >>
      \o (IF keys = << >>
          THEN << <<"<p>No issues found.</p>">> >>
          ELSE << <<"<ul>">> \o ListItems(base_url, keys) \o <<"</ul>">> >>)

RECURSIVE AllSections(_, _)
AllSections(issue_keys, base_url) ==
    IF issue_keys = << >> THEN << >>
    ELSE SectionLines(issue_keys[1].k, issue_keys[1].v, base_url)
            \o AllSections(Tail(issue_keys), base_url)

HeaderLines(summary) ==
    << <<"<h2>Weekly Jira Project Summary</h2>">>,
       <<"<ul>">>,
       <<"  <li>Issues created: <strong>">> \o IntText(summary.created_count) \o <<"</strong></li>">>,
       <<"  <li>Issues resolved: <strong>">> \o IntText(summary.resolved_count) \o <<"</strong></li>">>,
       <<"  <li>Issues currently open: <strong>">> \o IntText(summary.open_count) \o <<"</strong></li>">>,
       <<"</ul>">>,
       <<"<h3>Issue Links</h3>">> >>

build_email_body(summary, config) ==
    JoinLines(HeaderLines(summary) \o AllSections(summary.issue_keys, config.base_url))

\* variant: the open counter is read from the created entry
JiraIssueSummary_OpenFromCreated(counts_, issue_keys_) ==
    [created_count |-> DictGetDefault(counts_, "created", 0),
     resolved_count |-> DictGetDefault(counts_, "resolved", 0),
     open_count |-> DictGetDefault(counts_, "created", 0),
     issue_keys |-> issue_keys_]

\* JiraIssueSummary(...) as built at the end of summarize_issues
JiraIssueSummary(counts_, issue_keys_) ==
    [created_count |-> DictGetDefault(counts_, "created", 0),
     resolved_count |-> DictGetDefault(counts_, "resolved", 0),
     open_count |-> DictGetDefault(counts_, "open", 0),
     issue_keys |-> issue_keys_]

\* f"Weekly Jira Report for {project_key} ({start.date()} - {end.date()})"
Subject(project_key, start, end) ==
    <<"Weekly Jira Report for ">> \o project_key \o <<" (">> \o strftime(start)
        \o <<" - ">> \o strftime(end) \o <<")">>

\* the EmailMessage composed by send_email
EmailMessage(smtp, subject_, body_html) ==
    [Subject |-> subject_, From |-> smtp.sender, To |-> smtp.recipient,
     content |-> <<"This report requires an HTML capable email client.">>,
     html |-> body_html]

\* ------------------------------------------------------------ input pools
AllNames == {"JIRA_BASE_URL", "JIRA_PROJECT_KEY", "JIRA_AUTH_EMAIL", "JIRA_API_TOKEN",
             "JIRA_VERIFY_SSL", "SMTP_HOST", "SMTP_PORT", "SMTP_USERNAME",
             "SMTP_PASSWORD", "SMTP_SENDER", "SMTP_RECIPIENT", "SMTP_USE_TLS"}

BaseEnv ==
    [n \in AllNames |->
        CASE n = "JIRA_BASE_URL" -> Some(<<"https://jira.example">>)
          [] n = "JIRA_PROJECT_KEY" -> Some(<<"S", "C">>)
          [] n = "SMTP_PORT" -> Some(<<"2", "5">>)
          [] n \in {"JIRA_VERIFY_SSL", "SMTP_USE_TLS"} -> None
          [] OTHER -> Some(<< n >>)]

EnvWith(name, v) == [BaseEnv EXCEPT ![name] = v]

EnvPool ==
    {BaseEnv}
      \cup {EnvWith(JiraRequired[i], None) : i \in 1..Len(JiraRequired)}
      \cup {EnvWith(SmtpRequired[i], None) : i \in 1..Len(SmtpRequired)}
      \cup {EnvWith("JIRA_API_TOKEN", Some(<< >>)),
            [BaseEnv EXCEPT !["JIRA_BASE_URL"] = None, !["SMTP_HOST"] = None],
            EnvWith("SMTP_PORT", Some(<<"s", "m", "t", "p">>)),
            EnvWith("JIRA_BASE_URL", Some(<<"https://jira.example", "/", "/">>)),
            EnvWith("JIRA_PROJECT_KEY", Some(<<"O", "P", "S">>)),
            EnvWith("SMTP_USE_TLS", Some(<<"f", "a", "l", "s", "e">>)),
            EnvWith("SMTP_USE_TLS", Some(<<"T", "R", "U", "E">>)),
            EnvWith("SMTP_USE_TLS", Some(<< >>))}

FilterPool == {<< >>, <<"priority", " = ", "High">>}

\* 2023-12-31 12:00 and 2024-02-29 00:00
ClockPool == {[ord |-> 364, tod |-> 1], [ord |-> 424, tod |-> 0]}

K1 == <<"S", "C", "-", "1">>
K2 == <<"S", "C", "-", "2">>

JsonPool ==
    {[total |-> t, issues |-> Some(l)] :
        t \in {None, Some(1001)},
        l \in {<< >>, <<Some(K1), Some(K2)>>, <<Some(K2), Some(K1)>>}}
      \cup {[total |-> None, issues |-> None],
            [total |-> Some(1), issues |-> <<Some(<<Some(K1), None>>)>>[1]]}

Responses ==
    {[exc |-> TRUE, status |-> 0, json |-> None],
     [exc |-> FALSE, status |-> 500, json |-> None],
     [exc |-> FALSE, status |-> 200, json |-> None]}
      \cup {[exc |-> FALSE, status |-> 200, json |-> Some(d)] : d \in JsonPool}

SmtpErrors == {"SMTPException", "OSError"}

\* ------------------------------------------------------------------ state
VARIABLES
    argv,          \* the namespace parse_args returns: days, filters, dry_run
    environ,       \* os.environ
    clock,         \* what datetime.utcnow() returns
    pc,            \* position of main
    start, end,    \* the window (None before it is computed)
    jira_config, smtp_config,
    jql_queries,   \* summarize_issues: the dict build_jql returned
    counts, issue_keys,
    calls,         \* the tracker requests made so far: [label, jql, resp]
    tracker_fail,  \* the tracker call that failed: [label, exc]
    exc,           \* the exception that reached main: [in, type]
    summary,
    body, subject,
    stdout,        \* what print() wrote
    session,       \* the smtplib.SMTP session: "none", "open", "closed"
    smtp_ops,      \* the session operations attempted so far
    delivered,     \* the message the mail server accepted
    rc             \* the value main returned (None: not returned)

vars == <<argv, environ, clock, pc, start, end, jira_config, smtp_config, jql_queries,
          counts, issue_keys, calls, tracker_fail, exc, summary, body, subject,
          stdout, session, smtp_ops, delivered, rc>>

inputs == <<argv, environ, clock>>
window == <<start, end>>
configs == <<jira_config, smtp_config>>
tracker == <<jql_queries, counts, issue_keys, calls, tracker_fail>>
report == <<summary, body, subject, stdout>>
mail == <<session, smtp_ops, delivered>>

Init ==
    /\ argv \in [days : (0 - MaxDays)..MaxDays, filters : FilterPool, dry_run : BOOLEAN]
    /\ environ \in EnvPool
    /\ clock \in ClockPool
    /\ pc = "window"
    /\ start = None /\ end = None
    /\ jira_config = None /\ smtp_config = None
    /\ jql_queries = None
    /\ counts = << >> /\ issue_keys = << >>
    /\ calls = << >>
    /\ tracker_fail = None
    /\ exc = None
    /\ summary = None
    /\ body = None /\ subject = None
    /\ stdout = << >>
    /\ session = "none"
    /\ smtp_ops = << >>
    /\ delivered = None
    /\ rc = None

\* main, lines 199-200
ComputeWindow ==
    /\ pc = "window"
    /\ end' = Some(clock)
    /\ start' = Some(MinusDays(clock, argv.days))
    /\ pc' = "config"
    /\ UNCHANGED <<inputs, configs, tracker, exc, report, mail, rc>>

\* variant: a configuration error returns the summarization code
LoadConfig_WrongCode ==
    /\ pc = "config"
    /\ LET j == JiraConfig_from_env(environ)
           s == SmtpConfig_from_env(environ)
       IN  IF ~j.ok
           THEN /\ exc' = Some([in |-> "JiraConfig.from_env", type |-> j.exc])
                /\ rc' = Some(RC_SUMMARIZE)
                /\ pc' = "done"
                /\ UNCHANGED configs
           ELSE IF ~s.ok
           THEN /\ exc' = Some([in |-> "SmtpConfig.from_env", type |-> s.exc])
                /\ rc' = IF s.exc = "EnvironmentError" THEN Some(RC_SUMMARIZE) ELSE None
                /\ pc' = "done"
                /\ jira_config' = Some(j.cfg)
                /\ UNCHANGED smtp_config
           ELSE /\ jira_config' = Some(j.cfg)
                /\ smtp_config' = Some(s.cfg)
                /\ pc' = "build"
                /\ UNCHANGED <<exc, rc>>
    /\ UNCHANGED <<inputs, window, tracker, report, mail>>

\* main, lines 202-207
LoadConfig ==
    /\ pc = "config"
    /\ LET j == JiraConfig_from_env(environ)
           s == SmtpConfig_from_env(environ)
       IN  IF ~j.ok
           THEN /\ exc' = Some([in |-> "JiraConfig.from_env", type |-> j.exc])
                /\ rc' = Some(RC_CONFIG)
                /\ pc' = "done"
                /\ UNCHANGED configs
           ELSE IF ~s.ok
           THEN /\ exc' = Some([in |-> "SmtpConfig.from_env", type |-> s.exc])
                /\ rc' = IF s.exc = "EnvironmentError" THEN Some(RC_CONFIG) ELSE None
                /\ pc' = "done"
                /\ jira_config' = Some(j.cfg)
                /\ UNCHANGED smtp_config
           ELSE /\ jira_config' = Some(j.cfg)
                /\ smtp_config' = Some(s.cfg)
                /\ pc' = "build"
                /\ UNCHANGED <<exc, rc>>
    /\ UNCHANGED <<inputs, window, tracker, report, mail>>

\* summarize_issues, lines 127-129
BuildQueries ==
    /\ pc = "build"
    /\ jql_queries' = Some(build_jql(Val(jira_config).project_key, Val(start), Val(end),
                                     argv.filters))
    /\ counts' = << >>
    /\ issue_keys' = << >>
    /\ pc' = "query"
    /\ UNCHANGED <<inputs, window, configs, calls, tracker_fail, exc, report, mail, rc>>

\* variant: a failed call is logged and counted as empty, the loop goes on
CallJira_Swallow ==
    /\ pc = "query"
    /\ LET q == Val(jql_queries)[Len(counts) + 1]
       IN  \E resp \in Responses :
             LET r == call_jira_api(resp)
             IN  /\ calls' = Append(calls, [label |-> q.k, jql |-> q.v, resp |-> resp])
                 /\ counts' = DictSet(counts, q.k, IF r.ok THEN r.total ELSE 0)
                 /\ issue_keys' = DictSet(issue_keys, q.k, IF r.ok THEN r.issue_keys ELSE << >>)
                 /\ tracker_fail' = IF r.ok THEN tracker_fail
                                    ELSE Some([label |-> q.k, exc |-> r.exc])
                 /\ pc' = IF Len(counts) + 1 = Len(Val(jql_queries))
                          THEN "summary" ELSE "query"
                 /\ UNCHANGED <<exc, rc>>
    /\ UNCHANGED <<inputs, window, configs, jql_queries, report, mail>>

\* variant: the first failed call is attempted once more
CallJira_Retry ==
    /\ pc = "query"
    /\ LET q == Val(jql_queries)[Len(counts) + 1]
       IN  \E resp \in Responses :
             LET r == call_jira_api(resp)
             IN  /\ calls' = Append(calls, [label |-> q.k, jql |-> q.v, resp |-> resp])
                 /\ IF r.ok
                    THEN /\ counts' = DictSet(counts, q.k, r.total)
                         /\ issue_keys' = DictSet(issue_keys, q.k, r.issue_keys)
                         /\ pc' = IF Len(counts) + 1 = Len(Val(jql_queries))
                                  THEN "summary" ELSE "query"
                         /\ UNCHANGED <<tracker_fail, exc, rc>>
                    ELSE IF IsNone(tracker_fail)
                    THEN /\ tracker_fail' = Some([label |-> q.k, exc |-> r.exc])
                         /\ UNCHANGED <<counts, issue_keys, pc, exc, rc>>
                    ELSE /\ tracker_fail' = Some([label |-> q.k, exc |-> r.exc])
                         /\ exc' = Some([in |-> "summarize_issues", type |-> r.exc])
                         /\ rc' = Some(RC_SUMMARIZE)
                         /\ pc' = "done"
                         /\ UNCHANGED <<counts, issue_keys>>
    /\ UNCHANGED <<inputs, window, configs, jql_queries, report, mail>>

\* summarize_issues, one pass of the loop of lines 131-135; a raise leaves
\* summarize_issues and is caught by main, lines 211-213
CallJira ==
    /\ pc = "query"
    /\ LET q == Val(jql_queries)[Len(counts) + 1]
       IN  \E resp \in Responses :
             LET r == call_jira_api(resp)
             IN  /\ calls' = Append(calls, [label |-> q.k, jql |-> q.v, resp |-> resp])
                 /\ IF r.ok
                    THEN /\ counts' = DictSet(counts, q.k, r.total)
                         /\ issue_keys' = DictSet(issue_keys, q.k, r.issue_keys)
                         /\ pc' = IF Len(counts) + 1 = Len(Val(jql_queries))
                                  THEN "summary" ELSE "query"
                         /\ UNCHANGED <<tracker_fail, exc, rc>>
                    ELSE /\ tracker_fail' = Some([label |-> q.k, exc |-> r.exc])
                         /\ exc' = Some([in |-> "summarize_issues", type |-> r.exc])
                         /\ rc' = Some(RC_SUMMARIZE)
                         /\ pc' = "done"
                         /\ UNCHANGED <<counts, issue_keys>>
    /\ UNCHANGED <<inputs, window, configs, jql_queries, report, mail>>

\* summarize_issues, lines 137-142
ReturnSummary ==
    /\ pc = "summary"
    /\ summary' = Some(JiraIssueSummary(counts, issue_keys))
    /\ pc' = "render"
    /\ UNCHANGED <<inputs, window, configs, tracker, exc, body, subject, stdout, mail, rc>>

\* main, lines 215-217
Render ==
    /\ pc = "render"
    /\ body' = Some(build_email_body(Val(summary), Val(jira_config)))
    /\ subject' = Some(Subject(Val(jira_config).project_key, Val(start), Val(end)))
    /\ stdout' = Append(stdout, build_email_body(Val(summary), Val(jira_config)))
    /\ pc' = "dispatch"
    /\ UNCHANGED <<inputs, window, configs, tracker, exc, summary, mail, rc>>

\* variant: the dry-run flag is not consulted
Dispatch_AlwaysSend ==
    /\ pc = "dispatch"
    /\ pc' = "smtp_connect"
    /\ UNCHANGED rc
    /\ UNCHANGED <<inputs, window, configs, tracker, exc, report, mail>>

\* main, lines 219-223
Dispatch ==
    /\ pc = "dispatch"
    /\ IF argv.dry_run
       THEN /\ rc' = Some(RC_OK)
            /\ pc' = "done"
       ELSE /\ pc' = "smtp_connect"
            /\ UNCHANGED rc
    /\ UNCHANGED <<inputs, window, configs, tracker, exc, report, mail>>

\* what main does when send_email raises, lines 225-227
SendFailed(type) ==
    /\ exc' = Some([in |-> "send_email", type |-> type])
    /\ rc' = Some(RC_DELIVERY)
    /\ pc' = "done"

\* send_email, lines 169-177: smtplib.SMTP(host, port) connects; when it
\* raises there is no session to enter
SmtpConnect ==
    /\ pc = "smtp_connect"
    /\ smtp_ops' = Append(smtp_ops, "connect")
    /\ \/ /\ session' = "open"
          /\ pc' = IF Val(smtp_config).use_tls THEN "smtp_starttls" ELSE "smtp_login"
          /\ UNCHANGED <<exc, rc>>
       \/ /\ \E t \in SmtpErrors : SendFailed(t)
          /\ UNCHANGED session
    /\ UNCHANGED <<inputs, window, configs, tracker, report, delivered>>

\* send_email, lines 178-179; a raise leaves the with block, which closes
SmtpStartTls ==
    /\ pc = "smtp_starttls"
    /\ smtp_ops' = Append(smtp_ops, "starttls")
    /\ \/ /\ pc' = "smtp_login"
          /\ UNCHANGED <<session, exc, rc>>
       \/ /\ \E t \in SmtpErrors : SendFailed(t)
          /\ session' = "closed"
    /\ UNCHANGED <<inputs, window, configs, tracker, report, delivered>>

\* variant: a failed login leaves the session as it is
SmtpLogin_Leak ==
    /\ pc = "smtp_login"
    /\ smtp_ops' = Append(smtp_ops, "login")
    /\ \/ /\ pc' = "smtp_send"
          /\ UNCHANGED <<session, exc, rc>>
       \/ /\ \E t \in SmtpErrors : SendFailed(t)
          /\ UNCHANGED session
    /\ UNCHANGED <<inputs, window, configs, tracker, report, delivered>>

\* send_email, line 180
SmtpLogin ==
    /\ pc = "smtp_login"
    /\ smtp_ops' = Append(smtp_ops, "login")
    /\ \/ /\ pc' = "smtp_send"
          /\ UNCHANGED <<session, exc, rc>>
       \/ /\ \E t \in SmtpErrors : SendFailed(t)
          /\ session' = "closed"
    /\ UNCHANGED <<inputs, window, configs, tracker, report, delivered>>

\* send_email, lines 181-182, the end of the with block, and main, line 229
SmtpSendMessage ==
    /\ pc = "smtp_send"
    /\ smtp_ops' = Append(smtp_ops, "send_message")
    /\ session' = "closed"
    /\ \/ /\ delivered' = Some(EmailMessage(Val(smtp_config), Val(subject), Val(body)))
          /\ rc' = Some(RC_OK)
          /\ pc' = "done"
          /\ UNCHANGED exc
       \/ /\ \E t \in SmtpErrors : SendFailed(t)
          /\ UNCHANGED delivered
    /\ UNCHANGED <<inputs, window, configs, tracker, report>>

Next ==
    \/ ComputeWindow
    \/ LoadConfig
    \/ BuildQueries
    \/ CallJira
    \/ ReturnSummary
    \/ Render
    \/ Dispatch
    \/ SmtpConnect
    \/ SmtpStartTls
    \/ SmtpLogin
    \/ SmtpSendMessage

Spec == Init /\ [][Next]_vars

TypeOK == pc \in {"window", "config", "build", "query", "summary", "render", "dispatch",
                  "smtp_connect", "smtp_starttls", "smtp_login", "smtp_send", "done"}

\* ------------------------------------------------------- claim vocabulary
CallLabels == [n \in 1..Len(calls) |-> calls[n].label]
OpCount(op) == Cardinality({n \in 1..Len(smtp_ops) : smtp_ops[n] = op})
NoMail == session = "none" /\ smtp_ops = << >> /\ delivered = None
ConfigFailed == ~IsNone(exc) /\ Val(exc).type = "EnvironmentError"
SummarizeFailed == ~IsNone(exc) /\ Val(exc).in = "summarize_issues"
DeliveryFailed == ~IsNone(exc) /\ Val(exc).in = "send_email"
LabelIndex(l) == CHOOSE n \in 1..Len(Labels) : Labels[n] = l

\* C1: when the tracker call for a label fails, summarize_issues raises that
\* same failure, the calls made are exactly those for the labels up to and
\* including the failing one, and no summary exists.
C1_FailFast ==
    ~IsNone(tracker_fail) =>
        /\ exc = Some([in |-> "summarize_issues", type |-> Val(tracker_fail).exc])
        /\ CallLabels = SubSeq(Labels, 1, LabelIndex(Val(tracker_fail).label))
        /\ summary = None

C1_Witness ==
    /\ pc = "done"
    /\ ~IsNone(tracker_fail)
    /\ Val(tracker_fail).label = "resolved"
    /\ Len(calls) = 2

\* C2: with the dry-run flag set the run never touches the mail session, and
\* once configuration and summarization have succeeded it has printed the
\* rendered body and ends with the success code.
C2_DryRun ==
    argv.dry_run =>
        /\ NoMail
        /\ pc \notin {"smtp_connect", "smtp_starttls", "smtp_login", "smtp_send"}
        /\ (pc = "done" /\ ~IsNone(summary)) =>
              /\ rc = Some(RC_OK)
              /\ ~IsNone(body)
              /\ stdout = << Val(body) >>
              /\ Val(body) = build_email_body(Val(summary), Val(jira_config))

C2_Witness ==
    /\ argv.dry_run
    /\ pc = "done"
    /\ ~IsNone(summary)
    /\ rc = Some(RC_OK)
    /\ stdout # << >>

C3_Outcomes ==
    /\ Cardinality({RC_OK, RC_CONFIG, RC_SUMMARIZE, RC_DELIVERY}) = 4
    /\ ConfigFailed =>
          /\ pc = "done" /\ rc = Some(RC_CONFIG)
          /\ calls = << >> /\ stdout = << >> /\ NoMail
    /\ SummarizeFailed =>
          /\ pc = "done" /\ rc = Some(RC_SUMMARIZE)
          /\ stdout = << >> /\ NoMail
    /\ DeliveryFailed => (pc = "done" /\ rc = Some(RC_DELIVERY))
    /\ rc = Some(RC_CONFIG) => ConfigFailed
    /\ rc = Some(RC_SUMMARIZE) => SummarizeFailed
    /\ rc = Some(RC_DELIVERY) => DeliveryFailed
    /\ rc = Some(RC_OK) => IsNone(exc)

C4_SessionClosed ==
    /\ session = "open" => pc \in {"smtp_starttls", "smtp_login", "smtp_send"}
    /\ pc = "done" =>
          /\ session # "open"
          /\ OpCount("connect") = 1 /\ Len(smtp_ops) > 1 => session = "closed"

C4_Witness ==
    /\ pc = "done"
    /\ DeliveryFailed
    /\ smtp_ops = <<"connect", "login">>
    /\ session = "closed"

\* C5: the tracker calls of a run are a prefix of created, resolved, open,
\* each with the query built for its label, a failed call is the last one,
\* and the mail session is connected and a message sent at most once.
C5_CallOrder ==
    /\ CallLabels = SubSeq(Labels, 1, Len(calls))
    /\ Len(calls) <= 3
    /\ \A n \in 1..Len(calls) : calls[n].jql = DictGet(Val(jql_queries), calls[n].label)
    /\ \A n \in 1..Len(calls) : ~call_jira_api(calls[n].resp).ok => n = Len(calls)
    /\ OpCount("connect") <= 1
    /\ OpCount("send_message") <= 1

C5_Witness ==
    /\ Len(calls) = 3
    /\ OpCount("send_message") = 1
    /\ pc = "done"

WindowValid == ~IsNone(start) /\ DtLE(Val(start), Val(end))
S == strftime(Val(start))
E == strftime(Val(end))
Project == Val(jira_config).project_key
Query(l) == DictGet(Val(jql_queries), l)
\* the query for label l with the conjoined filter taken off again
Unfiltered(l) ==
    IF argv.filters = << >> THEN Query(l)
    ELSE SubSeq(Query(l), 1, Len(Query(l)) - Len(argv.filters) - 1)

C7_WindowOrdered ==
    ~IsNone(start) => DtLE(Val(start), Val(end))

\* C8: with a non-empty filter each query is the unfiltered clause followed
\* by ' AND ' and the filter verbatim; with an empty filter no conjunct is
\* added.
C8_FilterConjoined ==
    ~IsNone(jql_queries) =>
        LET plain == build_jql(Project, Val(start), Val(end), << >>)
        IN  \A n \in 1..3 :
              LET q == Val(jql_queries)[n]
              IN  /\ q.k = plain[n].k
                  /\ ~Contains(plain[n].v, <<" AND ">>)
                  /\ IF argv.filters # << >>
                     THEN q.v = plain[n].v \o <<" AND ">> \o argv.filters
                     ELSE ~Contains(q.v, <<" AND ">>)

C8_Witness ==
    /\ ~IsNone(jql_queries)
    /\ argv.filters # << >>
    /\ Len(calls) = 3

\* the positions of a fragment in a text, ascending
Positions(text, tok) == SelectSeq([n \in 1..Len(text) |-> n], LAMBDA n : text[n] = tok)

\* split on the line separator
SplitLines(text) ==
    LET seps == Positions(text, "\n")
        from(n) == IF n = 1 THEN 1 ELSE seps[n - 1] + 1
        to(n) == IF n = Len(seps) + 1 THEN Len(text) ELSE seps[n] - 1
    IN  [n \in 1..(Len(seps) + 1) |-> SubSeq(text, from(n), to(n))]

\* the href values of a line of markup, in order of appearance: what stands
\* between each <a href=' and the first quote that closes it
Hrefs(line) ==
    LET opens == Positions(line, "<li><a href='")
        close(n) == CHOOSE c \in (opens[n] + 1)..Len(line) :
                        /\ line[c] = "'>"
                        /\ \A d \in (opens[n] + 1)..(c - 1) : line[d] # "'>"
    IN  [n \in 1..Len(opens) |-> SubSeq(line, opens[n] + 1, close(n) - 1)]

TokenCount(line, tok) == Cardinality({n \in 1..Len(line) : line[n] = tok})
Notice == <<"<p>No issues found.</p>">>

\* C9: the body has one section per label in the order created, resolved,
\* open; a section is the 'No issues found.' notice without list markup
\* exactly when the label has no keys, and otherwise one list whose hrefs,
\* read in order, are base_url/browse/<key> for the label's keys in order.
C9_Sections ==
    ~IsNone(body) =>
        LET lines == SplitLines(Val(body))
            base == Val(jira_config).base_url
        IN  /\ Len(lines) = 7 + 2 * Len(Labels)
            /\ lines[7] = <<"<h3>Issue Links</h3>">>
            /\ \A n \in 1..Len(Labels) :
                  LET keys == DictGet(Val(summary).issue_keys, Labels[n])
                      head == lines[7 + 2 * n - 1]
                      sect == lines[7 + 2 * n]
                  IN  /\ head = <<"<p><strong>", Title(Labels[n]), " issues</strong>:</p>">>
                      /\ (keys = << >>) <=> (sect = Notice)
                      /\ keys = << >> =>
                            /\ TokenCount(sect, "<ul>") = 0
                            /\ Hrefs(sect) = << >>
                      /\ keys # << >> =>
                            /\ TokenCount(sect, "<ul>") = 1
                            /\ TokenCount(sect, "</ul>") = 1
                            /\ Hrefs(sect)
                                 = [i \in 1..Len(keys) |-> base \o <<"/browse/">> \o keys[i]]

C9_Witness ==
    /\ ~IsNone(body)
    /\ DictGet(Val(summary).issue_keys, "created") = <<K2, K1>>
    /\ DictGet(Val(summary).issue_keys, "resolved") = <<K1, K2>>
    /\ DictGet(Val(summary).issue_keys, "open") = << >>

\* the total and the keys a successful response carries
ReportedKeys(resp) ==
    LET data == Val(resp.json)
        issues == IF IsNone(data.issues) THEN << >> ELSE Val(data.issues)
    IN  [i \in 1..Len(issues) |-> Val(issues[i])]
ReportedTotal(resp) ==
    IF IsNone(Val(resp.json).total) THEN Len(ReportedKeys(resp))
    ELSE Val(Val(resp.json).total)

\* C10: the summary's created, resolved and open counters are the totals of
\* the created, resolved and open responses (the reported total, or the
\* number of returned keys when none is reported), and the keys under each
\* label are that response's keys in order.
C10_Counts ==
    ~IsNone(summary) =>
        /\ Len(calls) = 3
        /\ Val(summary).created_count = ReportedTotal(calls[1].resp)
        /\ Val(summary).resolved_count = ReportedTotal(calls[2].resp)
        /\ Val(summary).open_count = ReportedTotal(calls[3].resp)
        /\ DictKeys(Val(summary).issue_keys) = Labels
        /\ \A n \in 1..3 :
              DictGet(Val(summary).issue_keys, Labels[n]) = ReportedKeys(calls[n].resp)

C10_Witness ==
    /\ ~IsNone(summary)
    /\ Val(summary).created_count = 1001
    /\ Val(summary).resolved_count = 2
    /\ Val(summary).open_count = 0
    /\ IsNone(Val(calls[3].resp.json).issues)

====
